---- MODULE Spec2Model ----
(***************************************************************************)
(* preprocess_anime_data.py: a batch pipeline that loads a CSV table,      *)
(* cleans it, derives primary_genre and episode_range, keeps the           *)
(* TARGET_COUNT best-scored rows, aggregates per genre and per episode     *)
(* range, and writes one JSON document.                                    *)
(*                                                                         *)
(* Representation.  A cell is NA (pandas NaN) or Some(v).  A score is an   *)
(* integer number of thousandths (7004 is 7.004); a value rounded to two   *)
(* decimals is an integer number of hundredths (700 is 7.00).  A text is a *)
(* sequence of one-character strings.  A table is a sequence of rows; each *)
(* row carries idx, its pandas index label (the position in the file).     *)
(***************************************************************************)
EXTENDS Integers, Sequences, FiniteSets, TLC

VARIABLES
    csv,           \* the input file top_15000_anime.csv (never written)
    outfile,       \* the output file anime_data_optimized.json
    pc,            \* the step of the script that runs next
    error,         \* the exception that ended the run, "none" while it runs
    df,            \* the data frame
    top_anime,     \* the selected rows
    anime_list,    \* the compact records
    genre_data,    \* genreStats
    episode_data,  \* episodeStats
    data_package   \* the packaged output

vars == <<csv, outfile, pc, error, df, top_anime, anime_list, genre_data,
          episode_data, data_package>>

----------------------------------------------------------------------------
(* Bounds of the model *)

MaxRowsClean == 2
MaxRowsRank == 3
MaxRowsAgg == 2
MaxGenreLen == 4
MaxEpisodes == 210
MaxTime == 1

----------------------------------------------------------------------------
(* Cells and small helpers *)

NA == <<>>
Some(v) == <<v>>
isna(c) == c = NA
notna(c) == c /= NA
Val(c) == c[1]

Range(s) == {s[i] : i \in DOMAIN s}

RECURSIVE SumSeq(_)
SumSeq(s) == IF s = <<>> THEN 0 ELSE Head(s) + SumSeq(Tail(s))

Min(a, b) == IF a <= b THEN a ELSE b

Unset == <<>>

----------------------------------------------------------------------------
(* STEP 1: pd.read_csv.  An empty field is read as NaN; every row gets its  *)
(* position as index label.                                                 *)

ParseText(c) == IF c = NA \/ Val(c) = <<>> THEN NA ELSE c

read_csv(file) ==
    [i \in DOMAIN file.rows |->
        [idx      |-> i - 1,
         name     |-> file.rows[i].name,
         score    |-> file.rows[i].score,
         genres   |-> ParseText(file.rows[i].genres),
         episodes |-> file.rows[i].episodes,
         members  |-> file.rows[i].members,
         anime_id |-> file.rows[i].anime_id]]

----------------------------------------------------------------------------
(* STEP 2: cleaning *)

dropna(t) == SelectSeq(t, LAMBDA r : notna(r.score) /\ notna(r.genres))

(* a variant that keeps a score of 0 *)
NonNegativeScore(t) == SelectSeq(t, LAMBDA r : Val(r.score) >= 0)

PositiveScore(t) == SelectSeq(t, LAMBDA r : Val(r.score) > 0)

fillna_episodes(t) ==
    [i \in DOMAIN t |->
        IF isna(t[i].episodes) THEN [t[i] EXCEPT !.episodes = Some(0)] ELSE t[i]]

(* a variant that fills with 1 *)
fillna_members_one(t) ==
    [i \in DOMAIN t |->
        IF isna(t[i].members) THEN [t[i] EXCEPT !.members = Some(1)] ELSE t[i]]

fillna_members(t) ==
    [i \in DOMAIN t |->
        IF isna(t[i].members) THEN [t[i] EXCEPT !.members = Some(0)] ELSE t[i]]

Clean(t) == fillna_members(fillna_episodes(PositiveScore(dropna(t))))

----------------------------------------------------------------------------
(* STEP 3: df['genres'].str.split(',').str[0].str.strip() *)

Whitespace == {" "}

RECURSIVE FirstField(_)
FirstField(s) ==
    IF s = <<>> \/ Head(s) = "," THEN <<>>
    ELSE <<Head(s)>> \o FirstField(Tail(s))

RECURSIVE lstrip(_)
lstrip(s) == IF s /= <<>> /\ Head(s) \in Whitespace THEN lstrip(Tail(s)) ELSE s

RECURSIVE rstrip(_)
rstrip(s) ==
    IF s /= <<>> /\ s[Len(s)] \in Whitespace
    THEN rstrip(SubSeq(s, 1, Len(s) - 1)) ELSE s

(* a variant that trims the left side only *)
strip_left_only(s) == lstrip(s)

strip(s) == rstrip(lstrip(s))

primary_genre(genres) == strip(FirstField(genres))

----------------------------------------------------------------------------
(* STEP 4: episode ranges *)

(* a variant with the upper bound of "13-26" exclusive *)
categorize_episodes_exclusive(episodes) ==
    IF isna(episodes) \/ Val(episodes) = 0 THEN "Unknown"
    ELSE IF Val(episodes) <= 12 THEN "1-12"
    ELSE IF Val(episodes) < 26 THEN "13-26"
    ELSE IF Val(episodes) <= 52 THEN "27-52"
    ELSE IF Val(episodes) <= 100 THEN "53-100"
    ELSE IF Val(episodes) <= 200 THEN "101-200"
    ELSE "200+"

categorize_episodes(episodes) ==
    IF isna(episodes) \/ Val(episodes) = 0 THEN "Unknown"
    ELSE IF Val(episodes) <= 12 THEN "1-12"
    ELSE IF Val(episodes) <= 26 THEN "13-26"
    ELSE IF Val(episodes) <= 52 THEN "27-52"
    ELSE IF Val(episodes) <= 100 THEN "53-100"
    ELSE IF Val(episodes) <= 200 THEN "101-200"
    ELSE "200+"

----------------------------------------------------------------------------
(* STEP 5: df.nlargest(TARGET_COUNT, 'score'), keep='first': the rows in    *)
(* descending score order, equal scores in their order in the frame.        *)
(* TARGET_COUNT is 2000 in the script; the model scales it to its tables.   *)

TARGET_COUNT == 2

(* a variant that prefers the last of equal scores (keep='last') *)
keep_last(t) ==
    CHOOSE i \in DOMAIN t :
        /\ \A j \in DOMAIN t : Val(t[j].score) <= Val(t[i].score)
        /\ \A j \in (i + 1)..Len(t) : Val(t[j].score) < Val(t[i].score)

keep_first(t) ==
    CHOOSE i \in DOMAIN t :
        /\ \A j \in DOMAIN t : Val(t[j].score) <= Val(t[i].score)
        /\ \A j \in 1..(i - 1) : Val(t[j].score) < Val(t[i].score)

RemoveAt(t, i) == SubSeq(t, 1, i - 1) \o SubSeq(t, i + 1, Len(t))

RECURSIVE nlargest(_, _)
nlargest(n, t) ==
    IF n = 0 \/ t = <<>> THEN <<>>
    ELSE LET i == keep_first(t)
         IN  <<t[i]>> \o nlargest(n - 1, RemoveAt(t, i))

----------------------------------------------------------------------------
(* STEP 6: the compact records.  round2(num, den) is num/den thousandths    *)
(* rounded to the nearest hundredth.  int() of an integral episode or       *)
(* member count is that count.                                              *)

round2(num, den) ==
    LET d == 10 * den
        q == num \div d
        r == num % d
    IN  IF 2 * r < d THEN q
        ELSE IF 2 * r > d THEN q + 1
        ELSE IF q % 2 = 0 THEN q ELSE q + 1

anime_entry(row) ==
    [n |-> row.name,
     g |-> row.primary_genre,
     s |-> round2(Val(row.score), 1),
     e |-> IF notna(row.episodes) THEN Val(row.episodes) ELSE 0,
     m |-> IF notna(row.members) THEN Val(row.members) ELSE 0,
     r |-> row.episode_range]

----------------------------------------------------------------------------
(* STEPS 7 and 8: groupby(col).agg({'score': 'mean', 'anime_id': 'count'}). *)
(* 'count' counts the non-NaN anime_id values of the group.                 *)

GroupRows(t, col, k) == SelectSeq(t, LAMBDA r : r[col] = k)

mean_score(rows) ==
    round2(SumSeq([i \in DOMAIN rows |-> Val(rows[i].score)]), Len(rows))

count_anime_id(rows) == Len(SelectSeq(rows, LAMBDA r : notna(r.anime_id)))

groupby_agg(t, col) ==
    [k \in {t[i][col] : i \in DOMAIN t} |->
        [score    |-> mean_score(GroupRows(t, col, k)),
         anime_id |-> count_anime_id(GroupRows(t, col, k))]]

(* sort_values('score', ascending=False): any order of the groups with the  *)
(* means descending (the order of equal means is not fixed by the script).  *)
sort_values(stats) ==
    LET n == Cardinality(DOMAIN stats)
    IN  {o \in [1..n -> DOMAIN stats] :
            /\ \A i, j \in 1..n : i /= j => o[i] /= o[j]
            /\ \A i, j \in 1..n : i < j => stats[o[i]].score >= stats[o[j]].score}

make_genre_data(stats, order) ==
    [labels |-> order,
     scores |-> [i \in DOMAIN order |-> stats[order[i]].score],
     counts |-> [i \in DOMAIN order |-> stats[order[i]].anime_id]]

episode_order == <<"1-12", "13-26", "27-52", "53-100", "101-200", "200+">>

(* A count read with episode_stats.loc[label, 'anime_id'] is a numpy.int64; *)
(* the literal 0 of the else branch is a Python int.                        *)
NpInt64(v) == [type |-> "numpy.int64", v |-> v]
PyInt(v) == [type |-> "int", v |-> v]

make_episode_data(stats) ==
    [labels |-> episode_order,
     scores |-> [i \in DOMAIN episode_order |->
                    IF episode_order[i] \in DOMAIN stats
                    THEN stats[episode_order[i]].score ELSE 0],
     counts |-> [i \in DOMAIN episode_order |->
                    IF episode_order[i] \in DOMAIN stats
                    THEN NpInt64(stats[episode_order[i]].anime_id)
                    ELSE PyInt(0)]]

----------------------------------------------------------------------------
(* STEP 9: the package *)

(* a variant that reports the requested count as totalAnime *)
make_data_package_target(anime, genres, episodes, now) ==
    [anime        |-> anime,
     genreStats   |-> genres,
     episodeStats |-> episodes,
     metadata     |-> [totalAnime    |-> TARGET_COUNT,
                       totalGenres   |-> Len(genres.labels),
                       generatedAt   |-> now,
                       sourceDataset |-> "Kaggle - Top 15,000 Ranked Anime Dataset"]]

make_data_package(anime, genres, episodes, now) ==
    [anime        |-> anime,
     genreStats   |-> genres,
     episodeStats |-> episodes,
     metadata     |-> [totalAnime    |-> Len(anime),
                       totalGenres   |-> Len(genres.labels),
                       generatedAt   |-> now,
                       sourceDataset |-> "Kaggle - Top 15,000 Ranked Anime Dataset"]]

----------------------------------------------------------------------------
(* STEP 10: json.dump.  The encoder raises TypeError on a numpy.int64; the  *)
(* other values of the package are str, float and int.                      *)

JsonSerializable(pkg) ==
    \A i \in DOMAIN pkg.episodeStats.counts :
        pkg.episodeStats.counts[i].type = "int"

----------------------------------------------------------------------------
(* The script, one action per step.  pc is the step that runs next (12 when *)
(* the script has finished); an exception sets error and leaves pc at the   *)
(* step that raised it.                                                     *)

Columns == {"name", "score", "genres", "episodes", "members", "anime_id"}

Running(step) == pc = step /\ error = "none"

Raise(kind) ==
    /\ error' = kind
    /\ UNCHANGED <<csv, outfile, pc, df, top_anime, anime_list, genre_data,
                   episode_data, data_package>>

(* lines 14-16 *)
Load ==
    /\ Running(1)
    /\ IF ~csv.exists THEN Raise("FileNotFoundError")
       ELSE IF ~csv.parseable THEN Raise("ParserError")
       ELSE /\ df' = read_csv(csv)
            /\ pc' = 2
            /\ UNCHANGED <<csv, outfile, error, top_anime, anime_list,
                           genre_data, episode_data, data_package>>

(* lines 23-39 *)
CleanData ==
    /\ Running(2)
    /\ IF ~({"score", "genres"} \subseteq csv.columns) THEN Raise("KeyError")
       ELSE IF "episodes" \notin csv.columns
       THEN /\ df' = PositiveScore(dropna(df))
            /\ error' = "KeyError"
            /\ UNCHANGED <<csv, outfile, pc, top_anime, anime_list,
                           genre_data, episode_data, data_package>>
       ELSE IF "members" \notin csv.columns
       THEN /\ df' = fillna_episodes(PositiveScore(dropna(df)))
            /\ error' = "KeyError"
            /\ UNCHANGED <<csv, outfile, pc, top_anime, anime_list,
                           genre_data, episode_data, data_package>>
       ELSE /\ df' = Clean(df)
            /\ pc' = 3
            /\ UNCHANGED <<csv, outfile, error, top_anime, anime_list,
                           genre_data, episode_data, data_package>>

(* read_csv gives a column holding only NaN the dtype float64, and the .str *)
(* accessor of such a column raises AttributeError.                         *)
GenresIsText ==
    \/ csv.rows = <<>>
    \/ \E i \in DOMAIN csv.rows : notna(ParseText(csv.rows[i].genres))

(* lines 45-58 *)
ExtractPrimaryGenre ==
    /\ Running(3)
    /\ IF ~GenresIsText THEN Raise("AttributeError")
       ELSE /\ df' = [i \in DOMAIN df |->
                        [primary_genre |-> primary_genre(Val(df[i].genres))]
                            @@ df[i]]
            /\ pc' = 4
            /\ UNCHANGED <<csv, outfile, error, top_anime, anime_list,
                           genre_data, episode_data, data_package>>

(* lines 63-97 *)
CategorizeEpisodes ==
    /\ Running(4)
    /\ df' = [i \in DOMAIN df |->
                [episode_range |-> categorize_episodes(df[i].episodes)]
                    @@ df[i]]
    /\ pc' = 5
    /\ UNCHANGED <<csv, outfile, error, top_anime, anime_list, genre_data,
                   episode_data, data_package>>

(* lines 102-112; line 110 reads column 'name' and then .values[0] *)
SelectTop ==
    /\ Running(5)
    /\ top_anime' = nlargest(TARGET_COUNT, df)
    /\ IF "name" \notin csv.columns
       THEN /\ error' = "KeyError"
            /\ UNCHANGED pc
       ELSE IF nlargest(TARGET_COUNT, df) = <<>>
       THEN /\ error' = "IndexError"
            /\ UNCHANGED pc
       ELSE /\ pc' = 6
            /\ UNCHANGED error
    /\ UNCHANGED <<csv, outfile, df, anime_list, genre_data, episode_data,
                   data_package>>

(* lines 117-134 *)
CreateAnimeList ==
    /\ Running(6)
    /\ anime_list' = [i \in DOMAIN top_anime |-> anime_entry(top_anime[i])]
    /\ pc' = 7
    /\ UNCHANGED <<csv, outfile, error, df, top_anime, genre_data,
                   episode_data, data_package>>

(* lines 139-159 *)
GenreStatistics ==
    /\ Running(7)
    /\ IF "anime_id" \notin csv.columns THEN Raise("KeyError")
       ELSE /\ \E order \in sort_values(groupby_agg(df, "primary_genre")) :
                  genre_data' =
                      make_genre_data(groupby_agg(df, "primary_genre"), order)
            /\ pc' = 8
            /\ UNCHANGED <<csv, outfile, error, df, top_anime, anime_list,
                           episode_data, data_package>>

(* lines 164-186 *)
EpisodeStatistics ==
    /\ Running(8)
    /\ episode_data' = make_episode_data(groupby_agg(df, "episode_range"))
    /\ pc' = 9
    /\ UNCHANGED <<csv, outfile, error, df, top_anime, anime_list,
                   genre_data, data_package>>

(* lines 191-210; datetime.now() is any time *)
PackageData ==
    /\ Running(9)
    /\ \E now \in 1..MaxTime :
          data_package' =
              make_data_package(anime_list, genre_data, episode_data, now)
    /\ pc' = 10
    /\ UNCHANGED <<csv, outfile, error, df, top_anime, anime_list,
                   genre_data, episode_data>>

(* lines 215-228.  open(..., 'w') fails when the destination is not         *)
(* writable and otherwise creates or truncates the file; json.dump writes   *)
(* the document chunk by chunk and raises on the first value it cannot      *)
(* encode, after which the with-block closes the file with what was written *)
SaveJson ==
    /\ Running(10)
    /\ \E writable \in BOOLEAN :
          IF ~writable
          THEN /\ error' = "OSError"
               /\ UNCHANGED <<outfile, pc>>
          ELSE IF ~JsonSerializable(data_package)
          THEN /\ outfile' = [status |-> "partial", doc |-> Unset]
               /\ error' = "TypeError"
               /\ UNCHANGED pc
          ELSE /\ outfile' = [status |-> "complete", doc |-> data_package]
               /\ pc' = 11
               /\ UNCHANGED error
    /\ UNCHANGED <<csv, df, top_anime, anime_list, genre_data, episode_data,
                   data_package>>

(* lines 233-259; line 239 divides by len(anime_list) *)
Summary ==
    /\ Running(11)
    /\ IF Len(anime_list) = 0 THEN Raise("ZeroDivisionError")
       ELSE /\ pc' = 12
            /\ UNCHANGED <<csv, outfile, error, df, top_anime, anime_list,
                           genre_data, episode_data, data_package>>

Next ==
    \/ Load
    \/ CleanData
    \/ ExtractPrimaryGenre
    \/ CategorizeEpisodes
    \/ SelectTop
    \/ CreateAnimeList
    \/ GenreStatistics
    \/ EpisodeStatistics
    \/ PackageData
    \/ SaveJson
    \/ Summary

----------------------------------------------------------------------------
(* Input files *)

Name == Some(<<"N">>)

File(rows) ==
    [exists |-> TRUE, parseable |-> TRUE, columns |-> Columns, rows |-> rows]

Tables(R, n) == UNION {[1..k -> R] : k \in 0..n}

(* rows for the cleaning step: each critical field absent, empty, invalid   *)
(* or valid, each filled field absent or present                            *)
CleanRows ==
    [name : {Name}, score : {NA, Some(0), Some(7004)},
     genres : {NA, Some(<<>>), Some(<<"A">>)},
     episodes : {NA, Some(12)}, members : {NA, Some(5)},
     anime_id : {Some(1)}]

(* rows for the selection: equal scores, scores that round to the same      *)
(* hundredth (6.996 and 7.004), a larger score and a dropped row            *)
RankRows ==
    [name : {Name}, score : {Some(0), Some(6996), Some(7004), Some(8000)},
     genres : {Some(<<"A">>)},
     episodes : {NA, Some(12)}, members : {Some(5)},
     anime_id : {Some(1)}]

(* rows for the aggregations: two genres, four episode ranges, anime_id     *)
(* present or absent                                                        *)
AggRows ==
    [name : {Name}, score : {Some(6996), Some(8000)},
     genres : {Some(<<"A">>), Some(<<"B", ",", " ", "A">>)},
     episodes : {NA, Some(12), Some(13), Some(201)}, members : {Some(5)},
     anime_id : {NA, Some(1)}]

GoodRow ==
    [name |-> Name, score |-> Some(7004), genres |-> Some(<<"A">>),
     episodes |-> NA, members |-> Some(5), anime_id |-> Some(1)]

(* files that cannot be loaded, or lack one required column *)
BrokenFiles ==
    {[File(<<GoodRow>>) EXCEPT !.exists = FALSE],
     [File(<<GoodRow>>) EXCEPT !.parseable = FALSE]}
    \cup {[File(<<GoodRow>>) EXCEPT !.columns = Columns \ {c}] : c \in Columns}

InputFiles ==
    {File(t) : t \in Tables(CleanRows, MaxRowsClean)
                     \cup Tables(RankRows, MaxRowsRank)
                     \cup Tables(AggRows, MaxRowsAgg)}
    \cup BrokenFiles

Start(file) ==
    /\ csv = file
    /\ outfile = [status |-> "absent", doc |-> Unset]
    /\ pc = 1
    /\ error = "none"
    /\ df = <<>>
    /\ top_anime = <<>>
    /\ anime_list = <<>>
    /\ genre_data = Unset
    /\ episode_data = Unset
    /\ data_package = Unset

Init == \E file \in InputFiles : Start(file)

Spec == Init /\ [][Next]_vars

----------------------------------------------------------------------------
(* Specifications for the two per-row functions: one-row files whose row is *)
(* valid and whose episodes, or genres, range over every value in bounds.   *)

EpisodeCells == {NA} \cup {Some(e) : e \in 0..MaxEpisodes}

InitCategorize ==
    \E e \in EpisodeCells : Start(File(<<[GoodRow EXCEPT !.episodes = e]>>))

SpecCategorize == InitCategorize /\ [][Next]_vars

GenreAlphabet == {"A", "B", " ", ","}

Texts(n) == UNION {[1..k -> GenreAlphabet] : k \in 0..n}

InitGenre ==
    \E g \in Texts(MaxGenreLen) :
        Start(File(<<[GoodRow EXCEPT !.genres = Some(g)]>>))

SpecGenre == InitGenre /\ [][Next]_vars

----------------------------------------------------------------------------
(* Vocabulary of the properties *)

Cleaned == pc > 2
Selected == pc > 5 \/ (pc = 5 /\ error /= "none")

Loaded == read_csv(csv)
Origin(row) == Loaded[row.idx + 1]

Descending(s) == \A i \in 1..(Len(s) - 1) : s[i] >= s[i + 1]

Idxs(t) == {t[i].idx : i \in DOMAIN t}

----------------------------------------------------------------------------
(* C1: once the cleaning step has run, every row of the frame, and every    *)
(* selected row, has a score that is present and > 0 and genres that are    *)
(* present and non-empty, at every later step of the pipeline.              *)

CleanedRow(r) ==
    /\ notna(r.score) /\ Val(r.score) > 0
    /\ notna(r.genres) /\ Val(r.genres) /= <<>>

C1_CleanedRowsValid ==
    Cleaned => /\ \A i \in DOMAIN df : CleanedRow(df[i])
               /\ \A i \in DOMAIN top_anime : CleanedRow(top_anime[i])

(* the run finished on a file from which cleaning dropped a row and kept one *)
C1_Witness == pc = 12 /\ df /= <<>> /\ Len(df) < Len(csv.rows)

----------------------------------------------------------------------------
(* C8: cleaning a cleaned frame changes nothing, and the cleaned rows are   *)
(* rows of the loaded table, in the table's order, each at most once, equal *)
(* to their originals except that absent episodes and members are 0.        *)

FilledCell(c) == IF isna(c) THEN Some(0) ELSE c

C8_CleanIdempotentFilter ==
    Cleaned =>
        /\ Clean(df) = df
        /\ \A i \in DOMAIN df :
              /\ df[i].idx + 1 \in DOMAIN Loaded
              /\ df[i].name = Origin(df[i]).name
              /\ df[i].score = Origin(df[i]).score
              /\ df[i].genres = Origin(df[i]).genres
              /\ df[i].anime_id = Origin(df[i]).anime_id
              /\ df[i].episodes = FilledCell(Origin(df[i]).episodes)
              /\ df[i].members = FilledCell(Origin(df[i]).members)
        /\ \A i, j \in DOMAIN df : i < j => df[i].idx < df[j].idx

(* a kept row whose episodes and members were absent, beside a dropped row  *)
C8_Witness ==
    /\ Cleaned
    /\ Len(df) < Len(csv.rows)
    /\ \E i \in DOMAIN df : /\ isna(Origin(df[i]).episodes)
                            /\ isna(Origin(df[i]).members)
                            /\ df[i].episodes = Some(0)
                            /\ df[i].members = Some(0)

----------------------------------------------------------------------------
(* C3: categorize_episodes maps every episode count 0, 1, 2, ... and the    *)
(* absent case to exactly one bucket: 0 or absent to "Unknown", 1..12 to    *)
(* "1-12", 13..26 to "13-26", 27..52 to "27-52", 53..100 to "53-100",       *)
(* 101..200 to "101-200" and anything above 200 to "200+".                  *)

InBucket(e, lo, hi) == notna(e) /\ lo <= Val(e) /\ Val(e) <= hi

BucketOf(e, r) ==
    /\ r \in {"Unknown"} \cup Range(episode_order)
    /\ r = "Unknown" <=> (isna(e) \/ Val(e) = 0)
    /\ r = "1-12" <=> InBucket(e, 1, 12)
    /\ r = "13-26" <=> InBucket(e, 13, 26)
    /\ r = "27-52" <=> InBucket(e, 27, 52)
    /\ r = "53-100" <=> InBucket(e, 53, 100)
    /\ r = "101-200" <=> InBucket(e, 101, 200)
    /\ r = "200+" <=> (notna(e) /\ Val(e) > 200)

C3_CategorizeTotal ==
    /\ BucketOf(NA, categorize_episodes(NA))
    /\ pc > 4 => \A i \in DOMAIN df :
                    BucketOf(Origin(df[i]).episodes, df[i].episode_range)

(* the inclusive upper bound 26 has been categorized *)
C3_Witness ==
    /\ pc > 4
    /\ \E i \in DOMAIN df : /\ Origin(df[i]).episodes = Some(26)
                            /\ df[i].episode_range = "13-26"

----------------------------------------------------------------------------
(* C9: primary_genre is the text of genres before its first comma (all of   *)
(* genres when it has no comma) with the whitespace around it removed.      *)

NoComma(s) == \A i \in DOMAIN s : s[i] /= ","
AllSpace(s) == \A i \in DOMAIN s : s[i] \in Whitespace
Trimmed(p) == p = <<>> \/ (p[1] \notin Whitespace /\ p[Len(p)] \notin Whitespace)

(* f is g up to its first comma *)
BeforeFirstComma(f, g) ==
    /\ NoComma(f)
    /\ Len(f) <= Len(g)
    /\ SubSeq(g, 1, Len(f)) = f
    /\ Len(f) < Len(g) => g[Len(f) + 1] = ","

(* p is f without its leading and trailing whitespace *)
TrimOf(p, f) ==
    /\ Trimmed(p)
    /\ \E a \in 0..Len(f) : \E b \in a..Len(f) :
          /\ AllSpace(SubSeq(f, 1, a))
          /\ SubSeq(f, a + 1, b) = p
          /\ AllSpace(SubSeq(f, b + 1, Len(f)))

PrimaryOf(p, g) ==
    \E k \in 0..Len(g) :
        BeforeFirstComma(SubSeq(g, 1, k), g) /\ TrimOf(p, SubSeq(g, 1, k))

ActionComedyDrama ==
    <<"A", "c", "t", "i", "o", "n", ",", " ", "C", "o", "m", "e", "d", "y",
      ",", " ", "D", "r", "a", "m", "a">>
Action == <<"A", "c", "t", "i", "o", "n">>

C9_PrimaryGenre ==
    /\ primary_genre(ActionComedyDrama) = Action
    /\ primary_genre(Action) = Action
    /\ pc > 3 => \A i \in DOMAIN df :
                    PrimaryOf(df[i].primary_genre, Val(df[i].genres))

(* genres with whitespace on both sides of the first field and a comma *)
C9_Witness ==
    /\ pc > 3
    /\ \E i \in DOMAIN df : /\ Val(df[i].genres) = <<" ", "A", " ", ",">>
                            /\ df[i].primary_genre = <<"A">>

----------------------------------------------------------------------------
(* C7: the selection holds min(TARGET_COUNT, number of cleaned rows) rows,  *)
(* each a cleaned row taken at most once; no row left out has a higher      *)
(* score than a selected row; of rows with equal scores the one earlier in  *)
(* the input is selected first, so the selection is determined by the       *)
(* input: it lists its rows by score descending, then by input position.    *)

LeftOut == {i \in DOMAIN df : df[i].idx \notin Idxs(top_anime)}

C7_TopSelection ==
    Selected =>
        /\ Len(top_anime) = Min(TARGET_COUNT, Len(df))
        /\ \A i \in DOMAIN top_anime : \E j \in DOMAIN df : df[j] = top_anime[i]
        /\ \A i, j \in DOMAIN top_anime :
              i /= j => top_anime[i].idx /= top_anime[j].idx
        /\ \A i \in DOMAIN top_anime : \A j \in LeftOut :
              \/ Val(top_anime[i].score) > Val(df[j].score)
              \/ /\ Val(top_anime[i].score) = Val(df[j].score)
                 /\ top_anime[i].idx < df[j].idx
        /\ \A i, j \in DOMAIN top_anime :
              i < j =>
                 \/ Val(top_anime[i].score) > Val(top_anime[j].score)
                 \/ /\ Val(top_anime[i].score) = Val(top_anime[j].score)
                    /\ top_anime[i].idx < top_anime[j].idx

(* a row is left out whose score equals the score of the last selected row *)
C7_Witness ==
    /\ Selected
    /\ Len(top_anime) = TARGET_COUNT
    /\ \E j \in LeftOut :
          Val(df[j].score) = Val(top_anime[TARGET_COUNT].score)

----------------------------------------------------------------------------
(* C10: in the package, metadata.totalAnime is the length of anime,         *)
(* metadata.totalGenres is the length of genreStats.labels and the number   *)
(* of distinct primary genres of the cleaned rows, labels, scores and       *)
(* counts have one length within genreStats and within episodeStats, and    *)
(* every record's r is categorize_episodes of its e.                        *)

Packaged == pc > 9

C10_PackageConsistent ==
    Packaged =>
        /\ data_package.metadata.totalAnime = Len(data_package.anime)
        /\ data_package.metadata.totalGenres =
               Len(data_package.genreStats.labels)
        /\ Len(data_package.genreStats.labels) =
               Cardinality({primary_genre(Val(df[i].genres)) : i \in DOMAIN df})
        /\ Len(data_package.genreStats.scores) =
               Len(data_package.genreStats.labels)
        /\ Len(data_package.genreStats.counts) =
               Len(data_package.genreStats.labels)
        /\ Len(data_package.episodeStats.scores) =
               Len(data_package.episodeStats.labels)
        /\ Len(data_package.episodeStats.counts) =
               Len(data_package.episodeStats.labels)
        /\ \A i \in DOMAIN data_package.anime :
              data_package.anime[i].r =
                  categorize_episodes(Some(data_package.anime[i].e))

(* a package of two records from two genres, one in a named episode range  *)
C10_Witness ==
    /\ Packaged
    /\ data_package.metadata.totalAnime = 2
    /\ data_package.metadata.totalGenres = 2
    /\ \E i \in DOMAIN data_package.anime : data_package.anime[i].r = "200+"

----------------------------------------------------------------------------
(* C2: a run that ends in an error has not created, truncated or partly     *)
(* written the output file.                                                 *)

C2_NoOutputOnError == error /= "none" => outfile.status = "absent"

----------------------------------------------------------------------------
(* C4: the anime sequence has min(TARGET_COUNT, number of cleaned rows)     *)
(* records ordered by s descending, and a table with fewer cleaned rows     *)
(* than TARGET_COUNT gives a shorter sequence without an error.             *)

C4_TopLengthOrder ==
    /\ pc > 6 => /\ Len(anime_list) = Min(TARGET_COUNT, Len(df))
                 /\ Descending([i \in DOMAIN anime_list |-> anime_list[i].s])
    /\ (csv.columns = Columns /\ pc = 5 /\ Len(df) < TARGET_COUNT)
           => error = "none"

(* the part of C4 that the script keeps: length and order of the list once  *)
(* it is built                                                              *)
C4_ListLengthOrder ==
    pc > 6 => /\ Len(anime_list) = Min(TARGET_COUNT, Len(df))
              /\ Descending([i \in DOMAIN anime_list |-> anime_list[i].s])

----------------------------------------------------------------------------
(* C5: genreStats.scores is descending and the sum of genreStats.counts is  *)
(* the number of cleaned rows, also when a row's anime_id is absent.        *)

C5_GenreCounts ==
    pc > 7 => /\ Descending(genre_data.scores)
              /\ SumSeq(genre_data.counts) = Len(df)

----------------------------------------------------------------------------
(* C6: episodeStats.labels is the fixed order; at each position the count   *)
(* is the number of cleaned rows in that range, and a range without rows    *)
(* has score 0 and count 0; rows in "Unknown" are counted nowhere.          *)

RowsIn(label) ==
    Cardinality({i \in DOMAIN df : categorize_episodes(df[i].episodes) = label})

C6_EpisodeCounts ==
    pc > 8 =>
        /\ episode_data.labels =
               <<"1-12", "13-26", "27-52", "53-100", "101-200", "200+">>
        /\ \A i \in DOMAIN episode_data.labels :
              /\ episode_data.counts[i].v = RowsIn(episode_data.labels[i])
              /\ RowsIn(episode_data.labels[i]) = 0
                     => episode_data.scores[i] = 0
        /\ SumSeq([i \in DOMAIN episode_data.counts |->
                      episode_data.counts[i].v])
               = Len(df) - RowsIn("Unknown")

====
